---- MODULE Spec2Model ----
(***************************************************************************)
(* A model of the sales-api service: the user Store (business/data/user),  *)
(* the validate error types, the testgrp Test handler and the startup /    *)
(* shutdown sequence of app/services/sales-api/main.go.                    *)
(***************************************************************************)
EXTENDS Integers, Sequences, FiniteSets, TLC

VARIABLES
    users,      \* the users table: user_id -> row
    last,       \* the last Store call: its inputs and what it returned
    pc,         \* position of the main goroutine in main / run
    debug,      \* state of the debug-service goroutine
    notified,   \* TRUE once signal.Notify(shutdown, SIGINT, SIGTERM) ran
    shutdown,   \* the buffered channel `shutdown` (capacity 1)
    inflight,   \* the HTTP requests being served by the process
    served,     \* the requests whose response was written completely
    truncated,  \* the requests cut off by the process exiting
    atSignal,   \* the requests in flight when run received the signal
    log,        \* the messages written to the application log
    exit,       \* exit code of the process, -1 while it runs
    fe,         \* a validate.FieldErrors value
    feOut,      \* what FieldErrors.Error() and FieldErrors.Fields() returned
    treq        \* one request through Handlers.Test

storeVars == <<users, last>>
appVars ==
    <<pc, debug, notified, shutdown, inflight, served, truncated, atSignal, log,
      exit>>
feVars == <<fe, feOut>>
testVars == <<treq>>
vars ==
    <<users, last, pc, debug, notified, shutdown, inflight, served, truncated,
      atSignal, log, exit, fe, feOut, treq>>

----------------------------------------------------------------------------
(* Bounds of the model *)

\* `now` arguments and wall-clock readings range over 0..MaxTime (seconds)
MaxTime == 1

\* requests the debug listener accepts in one run of the process
MaxRequests == 2

\* entries in a FieldErrors value
MaxErrs == 2

----------------------------------------------------------------------------
(* Errors.  An error value is the chain fmt.Errorf("...: %w", err) builds:  *)
(* <<>> is nil, <<s>> a sentinel, <<msg>> \o e the error e wrapped.        *)

NilErr == <<>>
ErrNotFound == <<"user.ErrNotFound">>
ErrInvalidID == <<"user.ErrInvalidID">>
ErrAuthenticationFailure == <<"user.ErrAuthenticationFailure">>
ErrDBNotFound == <<"database.ErrDBNotFound">>
ErrForbidden == <<"database.ErrForbidden">>
ErrDBFailure == <<"database: query failed">>
ErrFieldErrors == <<"validate.FieldErrors">>

Wrap(msg, err) == <<msg>> \o err

\* errors.Is(err, target): target is err or something err wraps
ErrorsIs(err, target) ==
    \E i \in 1..Len(err) : SubSeq(err, i, Len(err)) = target

----------------------------------------------------------------------------
(* The data of the user package *)

RoleAdmin == "ADMIN"
RoleUser == "USER"
GoodIDs == {"u1", "u2"}
BadIDs == {"not-a-uuid"}
IDs == GoodIDs \cup BadIDs
Emails == {"a@x.com", "b@x.com"}
Passwords == {"secret", "other"}
Times == 0..MaxTime

\* time.Hour, in the seconds jwt.NewNumericDate keeps
Hour == 3600

Issuer == "service project"

\* bcrypt, abstracted: a hash matches exactly the password it was made from
Hash(pw) == <<"bcrypt", pw>>
CompareHashAndPassword(hash, pw) == hash = Hash(pw)

ZeroUser ==
    [ID |-> "", Name |-> "", Email |-> "", PasswordHash |-> <<>>, Roles |-> {},
     DateCreated |-> 0, DateUpdated |-> 0]

ZeroClaims ==
    [Issuer |-> "", Subject |-> "", ExpiresAt |-> 0, IssuedAt |-> 0, Roles |-> {}]

\* The Claims a caller presents
CallerClaims ==
    [Issuer : {Issuer}, Subject : GoodIDs, ExpiresAt : {Hour}, IssuedAt : {0},
     Roles : {{RoleUser}, {RoleAdmin}}]

\* NewUser values handed to Create; an empty name fails validation
NewUsers ==
    {[Name |-> "Ann", Email |-> "a@x.com", Roles |-> {RoleAdmin},
      Password |-> "secret"],
     [Name |-> "Bob", Email |-> "b@x.com", Roles |-> {RoleUser},
      Password |-> "secret"],
     [Name |-> "", Email |-> "a@x.com", Roles |-> {RoleUser},
      Password |-> "secret"]}

\* UpdateUser values: each field is <<>> (a nil pointer) or <<v>>
NoUpdate == [Name |-> <<>>, Email |-> <<>>, Roles |-> <<>>, Password |-> <<>>]
UpdateUsers ==
    {[NoUpdate EXCEPT !.Email = <<"not-an-email">>],
     [NoUpdate EXCEPT !.Roles = <<{RoleAdmin}>>]}

\* claims.Authorized(role)
Authorized(claims, role) == role \in claims.Roles

\* validate.CheckID(id): nil iff id parses as a UUID
CheckID(id) == IF id \in GoodIDs THEN NilErr ELSE <<"validate.ErrInvalidID">>

\* validate.Check(nu) on a NewUser: name is required
CheckNewUser(nu) == IF nu.Name # "" THEN NilErr ELSE ErrFieldErrors

\* validate.Check(uu) on an UpdateUser: a given email must be an email
CheckUpdateUser(uu) ==
    IF uu.Email = <<>> \/ uu.Email[1] \in Emails THEN NilErr ELSE ErrFieldErrors

----------------------------------------------------------------------------
(* The persistence collaborator (business/sys/database).  `ok` is FALSE    *)
(* when the database fails the statement for a reason of its own.          *)

\* NamedQueryStruct with WHERE user_id = :user_id
QueryRowByID(tbl, id, ok) ==
    IF ~ok THEN [usr |-> ZeroUser, err |-> ErrDBFailure]
    ELSE IF id \notin DOMAIN tbl THEN [usr |-> ZeroUser, err |-> ErrDBNotFound]
    ELSE [usr |-> tbl[id], err |-> NilErr]

\* NamedQueryStruct with WHERE email = :email
QueryRowByEmail(tbl, email, ok) ==
    IF ~ok THEN [usr |-> ZeroUser, err |-> ErrDBFailure]
    ELSE IF \A id \in DOMAIN tbl : tbl[id].Email # email
         THEN [usr |-> ZeroUser, err |-> ErrDBNotFound]
    ELSE [usr |-> tbl[CHOOSE id \in DOMAIN tbl : tbl[id].Email = email],
          err |-> NilErr]

\* the users table keeps email unique
EmailTaken(tbl, id, email) ==
    \E other \in DOMAIN tbl : other # id /\ tbl[other].Email = email

\* NamedExecContext of the INSERT statement
ExecInsert(tbl, usr, ok) ==
    IF ~ok \/ usr.ID \in DOMAIN tbl \/ EmailTaken(tbl, usr.ID, usr.Email)
    THEN [tbl |-> tbl, err |-> ErrDBFailure]
    ELSE [tbl |-> [id \in DOMAIN tbl \cup {usr.ID} |->
                      IF id = usr.ID THEN usr ELSE tbl[id]],
          err |-> NilErr]

\* NamedExecContext of the UPDATE statement
ExecUpdate(tbl, usr, ok) ==
    IF ~ok \/ EmailTaken(tbl, usr.ID, usr.Email)
    THEN [tbl |-> tbl, err |-> ErrDBFailure]
    ELSE [tbl |-> [id \in DOMAIN tbl |-> IF id = usr.ID THEN usr ELSE tbl[id]],
          err |-> NilErr]

\* NamedExecContext of the DELETE statement
ExecDelete(tbl, id, ok) ==
    IF ~ok THEN [tbl |-> tbl, err |-> ErrDBFailure]
    ELSE [tbl |-> [i \in DOMAIN tbl \ {id} |-> tbl[i]], err |-> NilErr]

----------------------------------------------------------------------------
(* The user Store.  Each operation is the function the code computes from  *)
(* the table and its arguments; `dberr` is what the row lookup reported    *)
(* (<<"none">> when the call returned before any lookup).                  *)

NoLookup == <<"none">>

\* QueryByID without its ownership checks
QueryByIDNoCheck(tbl, claims, userID, ok) ==
    IF CheckID(userID) # NilErr
    THEN [usr |-> ZeroUser, err |-> ErrInvalidID, dberr |-> NoLookup]
    ELSE LET row == QueryRowByID(tbl, userID, ok) IN
         IF row.err # NilErr
         THEN IF row.err = ErrDBNotFound
              THEN [usr |-> ZeroUser, err |-> ErrNotFound, dberr |-> row.err]
              ELSE [usr |-> ZeroUser,
                    err |-> Wrap("selecting userID", row.err), dberr |-> row.err]
         ELSE [usr |-> row.usr, err |-> NilErr, dberr |-> NilErr]

\* a QueryByID whose check after the fetch compares the caller with the
\* fetched user's email instead of the fetched user's ID
QueryByIDPostCheckEmail(tbl, claims, userID, ok) ==
    IF CheckID(userID) # NilErr
    THEN [usr |-> ZeroUser, err |-> ErrInvalidID, dberr |-> NoLookup]
    ELSE IF ~Authorized(claims, RoleAdmin) /\ claims.Subject # userID
    THEN [usr |-> ZeroUser, err |-> ErrForbidden, dberr |-> NoLookup]
    ELSE LET row == QueryRowByID(tbl, userID, ok) IN
         IF row.err # NilErr
         THEN IF row.err = ErrDBNotFound
              THEN [usr |-> ZeroUser, err |-> ErrNotFound, dberr |-> row.err]
              ELSE [usr |-> ZeroUser,
                    err |-> Wrap("selecting userID", row.err), dberr |-> row.err]
         ELSE IF ~Authorized(claims, RoleAdmin) /\ claims.Subject # row.usr.Email
         THEN [usr |-> ZeroUser, err |-> ErrForbidden, dberr |-> NilErr]
         ELSE [usr |-> row.usr, err |-> NilErr, dberr |-> NilErr]

\* Store.QueryByID
QueryByID(tbl, claims, userID, ok) ==
    IF CheckID(userID) # NilErr
    THEN [usr |-> ZeroUser, err |-> ErrInvalidID, dberr |-> NoLookup]
    ELSE IF ~Authorized(claims, RoleAdmin) /\ claims.Subject # userID
    THEN [usr |-> ZeroUser, err |-> ErrForbidden, dberr |-> NoLookup]
    ELSE LET row == QueryRowByID(tbl, userID, ok) IN
         IF row.err # NilErr
         THEN IF row.err = ErrDBNotFound
              THEN [usr |-> ZeroUser, err |-> ErrNotFound, dberr |-> row.err]
              ELSE [usr |-> ZeroUser,
                    err |-> Wrap("selecting userID", row.err), dberr |-> row.err]
         ELSE IF ~Authorized(claims, RoleAdmin) /\ claims.Subject # row.usr.ID
         THEN [usr |-> ZeroUser, err |-> ErrForbidden, dberr |-> NilErr]
         ELSE [usr |-> row.usr, err |-> NilErr, dberr |-> NilErr]

\* the fields of uu that are not nil, applied to usr
ApplyUpdate(usr, uu, now) ==
    [usr EXCEPT
        !.Name = IF uu.Name # <<>> THEN uu.Name[1] ELSE @,
        !.Email = IF uu.Email # <<>> THEN uu.Email[1] ELSE @,
        !.Roles = IF uu.Roles # <<>> THEN uu.Roles[1] ELSE @,
        !.PasswordHash = IF uu.Password # <<>> THEN Hash(uu.Password[1]) ELSE @,
        !.DateUpdated = now]

\* Store.Update
Update(tbl, claims, userID, uu, now, okq, okx) ==
    IF CheckID(userID) # NilErr
    THEN [tbl |-> tbl, err |-> ErrInvalidID, dberr |-> NoLookup]
    ELSE IF CheckUpdateUser(uu) # NilErr
    THEN [tbl |-> tbl, err |-> Wrap("validating data", CheckUpdateUser(uu)),
          dberr |-> NoLookup]
    ELSE LET q == QueryByID(tbl, claims, userID, okq) IN
         IF q.err # NilErr
         THEN IF ErrorsIs(q.err, ErrDBNotFound)
              THEN [tbl |-> tbl, err |-> ErrNotFound, dberr |-> q.dberr]
              ELSE [tbl |-> tbl, err |-> Wrap("updating user userID", q.err),
                    dberr |-> q.dberr]
         ELSE LET x == ExecUpdate(tbl, ApplyUpdate(q.usr, uu, now), okx) IN
              IF x.err # NilErr
              THEN [tbl |-> tbl, err |-> Wrap("inserting user", x.err),
                    dberr |-> q.dberr]
              ELSE [tbl |-> x.tbl, err |-> NilErr, dberr |-> q.dberr]

\* Store.Delete without its ownership check
DeleteNoCheck(tbl, claims, userID, ok) ==
    IF CheckID(userID) # NilErr
    THEN [tbl |-> tbl, err |-> ErrInvalidID, dberr |-> NoLookup]
    ELSE LET x == ExecDelete(tbl, userID, ok) IN
         IF x.err # NilErr
         THEN [tbl |-> tbl, err |-> Wrap("deleting userID", x.err),
               dberr |-> NoLookup]
         ELSE [tbl |-> x.tbl, err |-> NilErr, dberr |-> NoLookup]

\* Store.Delete
Delete(tbl, claims, userID, ok) ==
    IF CheckID(userID) # NilErr
    THEN [tbl |-> tbl, err |-> ErrInvalidID, dberr |-> NoLookup]
    ELSE IF ~Authorized(claims, RoleAdmin) /\ claims.Subject # userID
    THEN [tbl |-> tbl, err |-> ErrForbidden, dberr |-> NoLookup]
    ELSE LET x == ExecDelete(tbl, userID, ok) IN
         IF x.err # NilErr
         THEN [tbl |-> tbl, err |-> Wrap("deleting userID", x.err),
               dberr |-> NoLookup]
         ELSE [tbl |-> x.tbl, err |-> NilErr, dberr |-> NoLookup]

\* Store.Create; id is what validate.GenerateID() returned
Create(tbl, nu, now, id, ok) ==
    IF CheckNewUser(nu) # NilErr
    THEN [tbl |-> tbl, usr |-> ZeroUser,
          err |-> Wrap("validating data", CheckNewUser(nu))]
    ELSE LET usr == [ID |-> id, Name |-> nu.Name, Email |-> nu.Email,
                     PasswordHash |-> Hash(nu.Password), Roles |-> nu.Roles,
                     DateCreated |-> now, DateUpdated |-> now]
             x == ExecInsert(tbl, usr, ok)
         IN IF x.err # NilErr
            THEN [tbl |-> tbl, usr |-> ZeroUser,
                  err |-> Wrap("inserting user", x.err)]
            ELSE [tbl |-> x.tbl, usr |-> usr, err |-> NilErr]

\* an Authenticate that builds the user's claims before it compares the
\* password, and returns them beside ErrAuthenticationFailure
AuthenticateKeepsClaims(tbl, now, email, password, ok, t1, t2) ==
    LET row == QueryRowByEmail(tbl, email, ok)
        claims == [Issuer |-> Issuer, Subject |-> row.usr.ID,
                   ExpiresAt |-> t1 + Hour, IssuedAt |-> t2,
                   Roles |-> row.usr.Roles]
    IN
    IF row.err # NilErr
    THEN IF row.err = ErrNotFound
         THEN [claims |-> ZeroClaims, err |-> ErrNotFound, dberr |-> row.err]
         ELSE [claims |-> ZeroClaims, err |-> Wrap("selecting email", row.err),
               dberr |-> row.err]
    ELSE IF ~CompareHashAndPassword(row.usr.PasswordHash, password)
    THEN [claims |-> claims, err |-> ErrAuthenticationFailure, dberr |-> NilErr]
    ELSE [claims |-> claims, err |-> NilErr, dberr |-> NilErr]

\* Store.Authenticate; t1 and t2 are what the two time.Now() calls read
Authenticate(tbl, now, email, password, ok, t1, t2) ==
    LET row == QueryRowByEmail(tbl, email, ok) IN
    IF row.err # NilErr
    THEN IF row.err = ErrNotFound
         THEN [claims |-> ZeroClaims, err |-> ErrNotFound, dberr |-> row.err]
         ELSE [claims |-> ZeroClaims, err |-> Wrap("selecting email", row.err),
               dberr |-> row.err]
    ELSE IF ~CompareHashAndPassword(row.usr.PasswordHash, password)
    THEN [claims |-> ZeroClaims, err |-> ErrAuthenticationFailure,
          dberr |-> NilErr]
    ELSE [claims |-> [Issuer |-> Issuer, Subject |-> row.usr.ID,
                      ExpiresAt |-> t1 + Hour, IssuedAt |-> t2,
                      Roles |-> row.usr.Roles],
          err |-> NilErr, dberr |-> NilErr]

----------------------------------------------------------------------------
(* Calls on the Store.  Every call records its inputs and results in       *)
(* `last`; the variables of the other components stay as they are.         *)

NoCall ==
    [op |-> "none", claims |-> ZeroClaims, userID |-> "", email |-> "",
     password |-> "", now |-> 0, valid |-> TRUE, err |-> NilErr,
     dberr |-> NoLookup, out |-> ZeroClaims]

StoreInit ==
    /\ users = <<>>
    /\ last = NoCall

CallCreate ==
    /\ \E nu \in NewUsers, now \in Times, id \in GoodIDs \ DOMAIN users,
          ok \in BOOLEAN :
           LET r == Create(users, nu, now, id, ok) IN
           /\ users' = r.tbl
           /\ last' = [NoCall EXCEPT !.op = "Create", !.email = nu.Email,
                          !.password = nu.Password,
                          !.valid = (CheckNewUser(nu) = NilErr),
                          !.err = r.err]
    /\ UNCHANGED <<appVars, feVars, testVars>>

CallQueryByID ==
    /\ \E claims \in CallerClaims, userID \in IDs, ok \in BOOLEAN :
           LET r == QueryByID(users, claims, userID, ok) IN
           /\ users' = users
           /\ last' = [NoCall EXCEPT !.op = "QueryByID", !.claims = claims,
                          !.userID = userID, !.err = r.err, !.dberr = r.dberr]
    /\ UNCHANGED <<appVars, feVars, testVars>>

CallUpdate ==
    /\ \E claims \in CallerClaims, userID \in IDs, uu \in UpdateUsers,
          now \in Times, okq \in BOOLEAN :
           \E okx \in (IF okq THEN BOOLEAN ELSE {TRUE}) :
           LET r == Update(users, claims, userID, uu, now, okq, okx) IN
           /\ users' = r.tbl
           /\ last' = [NoCall EXCEPT !.op = "Update", !.claims = claims,
                          !.userID = userID,
                          !.valid = (CheckUpdateUser(uu) = NilErr),
                          !.err = r.err, !.dberr = r.dberr]
    /\ UNCHANGED <<appVars, feVars, testVars>>

CallDelete ==
    /\ \E claims \in CallerClaims, userID \in IDs, ok \in BOOLEAN :
           LET r == Delete(users, claims, userID, ok) IN
           /\ users' = r.tbl
           /\ last' = [NoCall EXCEPT !.op = "Delete", !.claims = claims,
                          !.userID = userID, !.err = r.err, !.dberr = r.dberr]
    /\ UNCHANGED <<appVars, feVars, testVars>>

CallAuthenticate ==
    /\ \E now \in Times, email \in Emails, password \in Passwords,
          ok \in BOOLEAN, t1 \in Times, t2 \in Times :
           LET r == Authenticate(users, now, email, password, ok, t1, t2) IN
           /\ users' = users
           /\ last' = [NoCall EXCEPT !.op = "Authenticate", !.email = email,
                          !.password = password, !.now = now, !.err = r.err,
                          !.dberr = r.dberr, !.out = r.claims]
    /\ UNCHANGED <<appVars, feVars, testVars>>

\* calls that create, read, change and remove users
StoreNext ==
    \/ CallCreate
    \/ CallQueryByID
    \/ CallUpdate
    \/ CallDelete

\* sign-up and sign-in
AuthNext ==
    \/ CallCreate
    \/ CallAuthenticate

----------------------------------------------------------------------------
(* main and run of app/services/sales-api/main.go.  pc is the statement    *)
(* the main goroutine is at:                                               *)
(*   initLogger, maxprocs, confParse, confString, goDebug, notify: startup *)
(*   wait:      blocked in <-shutdown                                      *)
(*   returning: the signal was received, run is at `return nil`            *)
(*   retHelp, retErr, retNil: run returned to main                         *)
(*   exited:    the process is gone                                        *)

Signals == {"SIGINT", "SIGTERM"}

Running == exit = -1

AppInit ==
    /\ pc = "initLogger"
    /\ debug = "none"
    /\ notified = FALSE
    /\ shutdown = <<>>
    /\ inflight = {}
    /\ served = {}
    /\ truncated = {}
    /\ atSignal = {}
    /\ log = <<>>
    /\ exit = -1

\* The process ends with `code`: every goroutine stops where it is, and what
\* was being served is cut off.
ProcessExit(code) ==
    /\ exit' = code
    /\ pc' = "exited"
    /\ truncated' = truncated \cup inflight
    /\ inflight' = {}

\* main: initLogger("SALES-API")
InitLogger ==
    /\ Running /\ pc = "initLogger"
    /\ \/ /\ pc' = "maxprocs"
          /\ UNCHANGED <<exit, truncated, inflight>>
       \/ ProcessExit(1)
    /\ UNCHANGED <<debug, notified, shutdown, served, atSignal, log>>
    /\ UNCHANGED <<storeVars, feVars, testVars>>

\* run: maxprocs.Set()
MaxProcs ==
    /\ Running /\ pc = "maxprocs"
    /\ \/ /\ pc' = "confParse"
          /\ log' = Append(log, "startup GOMAXPROCS")
       \/ /\ pc' = "retErr"
          /\ log' = log
    /\ UNCHANGED <<debug, notified, shutdown, inflight,
                   served, atSignal, truncated, exit>>
    /\ UNCHANGED <<storeVars, feVars, testVars>>

\* run: conf.Parse(prefix, &cfg), then the "starting service" line
ConfParse ==
    /\ Running /\ pc = "confParse"
    /\ \/ /\ pc' = "confString"
          /\ log' = Append(log, "starting service")
       \/ /\ pc' = "retHelp"
          /\ log' = log
       \/ /\ pc' = "retErr"
          /\ log' = log
    /\ UNCHANGED <<debug, notified, shutdown, inflight,
                   served, atSignal, truncated, exit>>
    /\ UNCHANGED <<storeVars, feVars, testVars>>

\* run: conf.String(&cfg), the config and debug-router lines; on an error the
\* deferred "shutdown complete" line runs
ConfString ==
    /\ Running /\ pc = "confString"
    /\ \/ /\ pc' = "goDebug"
          /\ log' = log \o <<"startup config", "debug v1 router started">>
       \/ /\ pc' = "retErr"
          /\ log' = Append(log, "shutdown complete")
    /\ UNCHANGED <<debug, notified, shutdown, inflight,
                   served, atSignal, truncated, exit>>
    /\ UNCHANGED <<storeVars, feVars, testVars>>

\* run: go func() { http.ListenAndServe(cfg.Web.DebugHost, debugMux) ... }()
GoDebug ==
    /\ Running /\ pc = "goDebug"
    /\ pc' = "notify"
    /\ debug' = "starting"
    /\ UNCHANGED <<notified, shutdown, inflight, served,
                   atSignal, truncated, log, exit>>
    /\ UNCHANGED <<storeVars, feVars, testVars>>

\* a run that makes the channel and never registers it with signal.Notify
NotifyMissing ==
    /\ Running /\ pc = "notify"
    /\ pc' = "wait"
    /\ shutdown' = <<>>
    /\ UNCHANGED <<debug, notified, inflight, served,
                   atSignal, truncated, log, exit>>
    /\ UNCHANGED <<storeVars, feVars, testVars>>

\* run: shutdown := make(chan os.Signal, 1); signal.Notify(shutdown, ...)
Notify ==
    /\ Running /\ pc = "notify"
    /\ pc' = "wait"
    /\ notified' = TRUE
    /\ shutdown' = <<>>
    /\ UNCHANGED <<debug, inflight, served, atSignal, truncated, log, exit>>
    /\ UNCHANGED <<storeVars, feVars, testVars>>

\* a wait for the signal that also waits for the debug goroutine to end
WaitShutdownJoinsDebug ==
    /\ Running /\ pc = "wait"
    /\ shutdown # <<>>
    /\ debug = "closed"
    /\ shutdown' = Tail(shutdown)
    /\ pc' = "returning"
    /\ atSignal' = inflight
    /\ UNCHANGED <<debug, notified, inflight, served, truncated, log, exit>>
    /\ UNCHANGED <<storeVars, feVars, testVars>>

\* run: <-shutdown
WaitShutdown ==
    /\ Running /\ pc = "wait"
    /\ shutdown # <<>>
    /\ shutdown' = Tail(shutdown)
    /\ pc' = "returning"
    /\ atSignal' = inflight
    /\ UNCHANGED <<debug, notified, inflight, served, truncated, log, exit>>
    /\ UNCHANGED <<storeVars, feVars, testVars>>

\* run: return nil, with the deferred "shutdown complete" line
ReturnNil ==
    /\ Running /\ pc = "returning"
    /\ pc' = "retNil"
    /\ log' = Append(log, "shutdown complete")
    /\ UNCHANGED <<debug, notified, shutdown, inflight,
                   served, atSignal, truncated, exit>>
    /\ UNCHANGED <<storeVars, feVars, testVars>>

\* main: run returned an error: log it and os.Exit(1)
MainError ==
    /\ Running /\ pc = "retErr"
    /\ log' = Append(log, "startup ERROR")
    /\ ProcessExit(1)
    /\ UNCHANGED <<debug, notified, shutdown, served, atSignal>>
    /\ UNCHANGED <<storeVars, feVars, testVars>>

\* main: run returned nil: the deferred log.Sync(), and main returns
MainReturn ==
    /\ Running /\ pc \in {"retNil", "retHelp"}
    /\ ProcessExit(0)
    /\ UNCHANGED <<debug, notified, shutdown, served, atSignal, log>>
    /\ UNCHANGED <<storeVars, feVars, testVars>>

\* the steps of the main goroutine
MainStep ==
    \/ InitLogger
    \/ MaxProcs
    \/ ConfParse
    \/ ConfString
    \/ GoDebug
    \/ Notify
    \/ WaitShutdown
    \/ ReturnNil
    \/ MainError
    \/ MainReturn

\* debug goroutine: ListenAndServe binds the debug host, or fails to
DebugListen ==
    /\ Running /\ debug = "starting"
    /\ \/ /\ debug' = "listening"
          /\ log' = log
       \/ /\ debug' = "closed"
          /\ log' = Append(log, "shutdown debug router closed")
    /\ UNCHANGED <<pc, notified, shutdown, inflight,
                   served, atSignal, truncated, exit>>
    /\ UNCHANGED <<storeVars, feVars, testVars>>

\* a failure of the debug listener that is reported to run, which returns it
DebugFailStopsRun ==
    /\ Running /\ debug = "listening"
    /\ debug' = "closed"
    /\ log' = Append(log, "shutdown debug router closed")
    /\ pc' = IF pc = "wait" THEN "retErr" ELSE pc
    /\ UNCHANGED <<notified, shutdown, inflight,
                   served, atSignal, truncated, exit>>
    /\ UNCHANGED <<storeVars, feVars, testVars>>

\* debug goroutine: ListenAndServe returns an error while serving
DebugFail ==
    /\ Running /\ debug = "listening"
    /\ debug' = "closed"
    /\ log' = Append(log, "shutdown debug router closed")
    /\ UNCHANGED <<pc, notified, shutdown, inflight,
                   served, atSignal, truncated, exit>>
    /\ UNCHANGED <<storeVars, feVars, testVars>>

\* the debug listener accepts a request
Accept ==
    /\ Running /\ debug = "listening"
    /\ Cardinality(inflight \cup served) < MaxRequests
    /\ inflight' = inflight \cup {Cardinality(inflight \cup served) + 1}
    /\ UNCHANGED <<pc, debug, notified, shutdown,
                   served, atSignal, truncated, log, exit>>
    /\ UNCHANGED <<storeVars, feVars, testVars>>

\* a request being served gets its whole response
Complete ==
    /\ Running
    /\ \E r \in inflight :
           /\ inflight' = inflight \ {r}
           /\ served' = served \cup {r}
    /\ UNCHANGED <<pc, debug, notified, shutdown,
                   truncated, atSignal, log, exit>>
    /\ UNCHANGED <<storeVars, feVars, testVars>>

\* The operating system delivers SIGINT or SIGTERM.  After signal.Notify the
\* runtime sends it to `shutdown` without blocking (dropped when the buffer
\* is full); before, the signal's default action ends the process.
Signal ==
    /\ \E sig \in Signals :
           /\ Running
           /\ IF notified
              THEN /\ shutdown' = IF Len(shutdown) < 1 THEN Append(shutdown, sig)
                                  ELSE shutdown
                   /\ UNCHANGED <<pc, exit, truncated, inflight>>
              ELSE /\ ProcessExit(2)
                   /\ shutdown' = shutdown
           /\ UNCHANGED <<debug, notified, served, atSignal, log>>
    /\ UNCHANGED <<storeVars, feVars, testVars>>

AppNext ==
    \/ MainStep
    \/ DebugListen
    \/ DebugFail
    \/ Accept
    \/ Complete
    \/ Signal

\* Starting -> Serving -> Draining -> Stopped, read off the main goroutine
AppState ==
    CASE pc = "exited" -> "Stopped"
      [] pc = "wait" -> "Serving"
      [] pc \in {"returning", "retNil"} -> "Draining"
      [] OTHER -> "Starting"

----------------------------------------------------------------------------
(* validate.FieldErrors.  A Go string is the sequence of its characters;   *)
(* Error() is json.Marshal of the slice, character by character.           *)

Quote == "\""
Backslash == "\\"

\* the strings a field name or a message is drawn from
Strs == {<<"a">>, <<"b">>, <<Quote>>}

FieldErrorValues == [Field : Strs, Error : Strs]

RECURSIVE EncodeChars(_)
\* the body of a JSON string: quotes and backslashes are escaped
EncodeChars(str) ==
    IF str = <<>> THEN <<>>
    ELSE (IF Head(str) \in {Quote, Backslash} THEN <<Backslash, Head(str)>>
          ELSE <<Head(str)>>) \o EncodeChars(Tail(str))

\* encoding/json of a string
EncodeString(str) == <<Quote>> \o EncodeChars(str) \o <<Quote>>

\* encoding/json of one FieldError: {"field":"...","error":"..."}
EncodeFieldError(f) ==
    <<"{", Quote, "f", "i", "e", "l", "d", Quote, ":">> \o EncodeString(f.Field)
    \o <<",", Quote, "e", "r", "r", "o", "r", Quote, ":">> \o EncodeString(f.Error)
    \o <<"}">>

RECURSIVE EncodeElems(_)
\* the elements of a JSON array, separated by commas
EncodeElems(list) ==
    IF list = <<>> THEN <<>>
    ELSE IF Len(list) = 1 THEN EncodeFieldError(list[1])
    ELSE EncodeFieldError(list[1]) \o <<",">> \o EncodeElems(Tail(list))

\* an Error() that reports the first failing field only
FieldErrorsErrorFirstOnly(list) ==
    IF list = <<>> THEN <<"n", "u", "l", "l">>
    ELSE <<"[">> \o EncodeFieldError(list[1]) \o <<"]">>

\* FieldErrors.Error(): json.Marshal of the slice (null for the nil slice)
FieldErrorsError(list) ==
    IF list = <<>> THEN <<"n", "u", "l", "l">>
    ELSE <<"[">> \o EncodeElems(list) \o <<"]">>

RECURSIVE FieldsFrom(_, _)
\* the loop of Fields(): m[fld.Field] = fld.Error for each entry in turn
FieldsFrom(m, list) ==
    IF list = <<>> THEN m
    ELSE LET fld == Head(list) IN
         FieldsFrom([k \in DOMAIN m \cup {fld.Field} |->
                        IF k = fld.Field THEN fld.Error ELSE m[k]],
                    Tail(list))

\* FieldErrors.Fields()
FieldErrorsFields(list) == FieldsFrom(<<>>, list)

NoOutput == <<"not called">>

FEInit ==
    /\ fe = <<>>
    /\ feOut = [error |-> NoOutput, fields |-> <<>>, calls |-> {}]

\* validation finds one more failing field
AddFieldError ==
    /\ \E f \in FieldErrorValues :
           /\ Len(fe) < MaxErrs
           /\ fe' = Append(fe, f)
           /\ feOut' = [error |-> NoOutput, fields |-> <<>>, calls |-> {}]
    /\ UNCHANGED <<storeVars, appVars, testVars>>

CallError ==
    /\ "Error" \notin feOut.calls
    /\ feOut' = [feOut EXCEPT !.error = FieldErrorsError(fe),
                              !.calls = @ \cup {"Error"}]
    /\ fe' = fe
    /\ UNCHANGED <<storeVars, appVars, testVars>>

CallFields ==
    /\ "Fields" \notin feOut.calls
    /\ feOut' = [feOut EXCEPT !.fields = FieldErrorsFields(fe),
                              !.calls = @ \cup {"Fields"}]
    /\ fe' = fe
    /\ UNCHANGED <<storeVars, appVars, testVars>>

FENext ==
    \/ AddFieldError
    \/ CallError
    \/ CallFields

----------------------------------------------------------------------------
(* testgrp.Handlers.Test *)

\* the bound of rand.Intn
RandN == 100
StatusOK == 200
StatusBadRequest == 400

NoRequestError == [Err |-> "", Status |-> 0, Fields |-> <<>>]

\* validate.NewRequestError(err, status)
NewRequestError(err, status) == [Err |-> err, Status |-> status, Fields |-> <<>>]

\* web.Respond(ctx, w, data, statusCode): writes the status and the encoded
\* data to the response once; `ok` is FALSE when the write fails
Respond(w, data, statusCode, ok) ==
    [w |-> [w EXCEPT !.responds = @ + 1,
                     !.writes = Append(@, [status |-> statusCode, body |-> data])],
     err |-> IF ok THEN "nil" ELSE "write error"]

NewResponse == [responds |-> 0, writes |-> <<>>]

\* a Test that answers the request itself before it returns its error
TestRespondsOnError(n, w, ok) ==
    IF n % 2 = 0
    THEN [w |-> Respond(w, "trusted error", StatusBadRequest, ok).w,
          ret |-> "RequestError",
          re |-> NewRequestError("trusted error", StatusBadRequest)]
    ELSE LET r == Respond(w, "OK", StatusOK, ok) IN
         [w |-> r.w, ret |-> r.err, re |-> NoRequestError]

\* Handlers.Test; n is what rand.Intn(100) returned
Test(n, w, ok) ==
    IF n % 2 = 0
    THEN [w |-> w, ret |-> "RequestError",
          re |-> NewRequestError("trusted error", StatusBadRequest)]
    ELSE LET r == Respond(w, "OK", StatusOK, ok) IN
         [w |-> r.w, ret |-> r.err, re |-> NoRequestError]

TestInit ==
    treq = [state |-> "idle", n |-> 0, w |-> NewResponse, ret |-> "nil",
            re |-> NoRequestError]

\* a request arrives and Test handles it
HandleTest ==
    /\ \E n \in 0..(RandN - 1), ok \in BOOLEAN :
           LET r == Test(n, NewResponse, ok) IN
           treq' = [state |-> "handled", n |-> n, w |-> r.w, ret |-> r.ret,
                    re |-> r.re]
    /\ UNCHANGED <<storeVars, appVars, feVars>>

TestNext == HandleTest

----------------------------------------------------------------------------
(* Specifications: one per component; what a component does not touch     *)
(* keeps its initial value.                                                *)

Init == StoreInit /\ AppInit /\ FEInit /\ TestInit

SpecStore == Init /\ [][StoreNext]_vars

SpecAuth == Init /\ [][AuthNext]_vars

SpecUser == Init /\ [][StoreNext \/ CallAuthenticate]_vars

SpecApp == Init /\ [][AppNext]_vars

\* the Go scheduler keeps running the main goroutine while it can take a step
FairApp == SpecApp /\ WF_vars(MainStep)

SpecFE == Init /\ [][FENext]_vars

SpecTest == Init /\ [][TestNext]_vars

Next == StoreNext \/ AuthNext \/ AppNext \/ FENext \/ TestNext

Spec == Init /\ [][Next]_vars

----------------------------------------------------------------------------
(* Properties of the user Store *)

OwnershipChecked == {"QueryByID", "Update", "Delete"}

\* the spec's rule: the caller is an admin or is the target user
Permitted(claims, userID) ==
    Authorized(claims, RoleAdmin) \/ claims.Subject = userID

\* C1 as stated: on a well-formed target ID, QueryByID, Update and Delete
\* answer with the forbidden error exactly when the caller is neither an
\* admin nor the target user.
C1_ForbiddenIffNotPermitted ==
    (last.op \in OwnershipChecked /\ CheckID(last.userID) = NilErr) =>
        (~Permitted(last.claims, last.userID)
            <=> ErrorsIs(last.err, ErrForbidden))

\* C1: on a well-formed target ID, QueryByID and Delete return
\* database.ErrForbidden exactly when the caller is neither an admin nor the
\* target user; Update validates its UpdateUser first, so it returns the
\* validation error for an invalid one whoever calls, and for a valid one it
\* returns ErrForbidden wrapped ("updating user userID[..]: ...") exactly
\* when the caller is neither an admin nor the target user.
C1_Ownership ==
    (last.op \in OwnershipChecked /\ CheckID(last.userID) = NilErr) =>
        LET denied == ~Permitted(last.claims, last.userID) IN
        /\ last.op \in {"QueryByID", "Delete"} =>
               (denied <=> last.err = ErrForbidden)
        /\ (last.op = "Update" /\ last.valid) =>
               /\ denied <=> ErrorsIs(last.err, ErrForbidden)
               /\ denied => last.err = Wrap("updating user userID", ErrForbidden)
        /\ (last.op = "Update" /\ ~last.valid) =>
               last.err = Wrap("validating data", ErrFieldErrors)

\* a stranger's Update of a stored user was turned down
C1_Witness ==
    /\ last.op = "Update" /\ last.valid
    /\ last.userID \in DOMAIN users
    /\ ~Permitted(last.claims, last.userID)
    /\ ErrorsIs(last.err, ErrForbidden)

\* C2: a QueryByID, Update or Delete by a caller who is neither an admin nor
\* the target user leaves the users table exactly as it was.
C2_ForbiddenNoMutation ==
    [][(last'.op \in OwnershipChecked
        /\ ~Permitted(last'.claims, last'.userID)) => users' = users]_vars

\* a stranger's Delete of a stored user was turned down, the row is still there
C2_Witness ==
    /\ last.op = "Delete"
    /\ ~Permitted(last.claims, last.userID)
    /\ last.userID \in DOMAIN users
    /\ last.err = ErrForbidden

\* the stored user with this email, if any
UsersByEmail(email) == {id \in DOMAIN users : users[id].Email = email}

\* C3 as stated: a successful Authenticate returns the stored user's ID and
\* roles, issued at the `now` it was given and expiring one hour after it.
C3_ClaimsFromNow ==
    (last.op = "Authenticate" /\ last.err = NilErr) =>
        \E id \in UsersByEmail(last.email) :
            /\ last.out.Subject = users[id].ID
            /\ last.out.Roles = users[id].Roles
            /\ last.out.IssuedAt = last.now
            /\ last.out.ExpiresAt = last.now + Hour
            /\ last.out.ExpiresAt > last.out.IssuedAt
            /\ last.out.Subject # ""

\* C10 as stated: when the row lookup reports database.ErrDBNotFound,
\* QueryByID, Update and Authenticate return the Store's ErrNotFound itself.
C10_NotFoundKept ==
    (last.op \in {"QueryByID", "Update", "Authenticate"}
     /\ last.dberr = ErrDBNotFound) => last.err = ErrNotFound

\* C11: Authenticate returns the zero Claims with ErrAuthenticationFailure
\* when the password does not match the hash of the user found by email, the
\* zero Claims with an error when the lookup fails, and Claims other than
\* the zero value only together with a nil error.
C11_NoClaimsOnFailure ==
    last.op = "Authenticate" =>
        /\ (last.dberr = NilErr
            /\ \E id \in UsersByEmail(last.email) :
                   ~CompareHashAndPassword(users[id].PasswordHash,
                                           last.password)) =>
               (last.err = ErrAuthenticationFailure /\ last.out = ZeroClaims)
        /\ last.dberr # NilErr =>
               (last.err # NilErr /\ last.out = ZeroClaims)
        /\ last.out # ZeroClaims => last.err = NilErr

\* a stored user's email with the wrong password was turned down
C11_Witness ==
    /\ last.op = "Authenticate"
    /\ UsersByEmail(last.email) # {}
    /\ \A id \in UsersByEmail(last.email) :
           ~CompareHashAndPassword(users[id].PasswordHash, last.password)
    /\ last.err = ErrAuthenticationFailure
    /\ last.out = ZeroClaims

\* QueryByID as it would be with the check before the fetch only
QueryByIDPreCheckOnly(tbl, claims, userID, ok) ==
    IF CheckID(userID) # NilErr
    THEN [usr |-> ZeroUser, err |-> ErrInvalidID, dberr |-> NoLookup]
    ELSE IF ~Authorized(claims, RoleAdmin) /\ claims.Subject # userID
    THEN [usr |-> ZeroUser, err |-> ErrForbidden, dberr |-> NoLookup]
    ELSE LET row == QueryRowByID(tbl, userID, ok) IN
         IF row.err # NilErr
         THEN IF row.err = ErrDBNotFound
              THEN [usr |-> ZeroUser, err |-> ErrNotFound, dberr |-> row.err]
              ELSE [usr |-> ZeroUser,
                    err |-> Wrap("selecting userID", row.err), dberr |-> row.err]
         ELSE [usr |-> row.usr, err |-> NilErr, dberr |-> NilErr]

\* the check before the fetch lets the caller through
PreCheckPasses(claims, userID) ==
    CheckID(userID) = NilErr
    /\ (Authorized(claims, RoleAdmin) \/ claims.Subject = userID)

\* C12: for every Claims value and user ID, when the check before the fetch
\* passes and the fetched row carries the requested ID, the check after the
\* fetch does not reject, and QueryByID returns what it would return with
\* the check before the fetch alone.
C12_PostCheckRedundant ==
    \A claims \in CallerClaims, userID \in IDs, ok \in BOOLEAN :
        LET row == QueryRowByID(users, userID, ok) IN
        (row.err = NilErr => row.usr.ID = userID) =>
            /\ (PreCheckPasses(claims, userID) /\ row.err = NilErr) =>
                   QueryByID(users, claims, userID, ok).err # ErrForbidden
            /\ QueryByID(users, claims, userID, ok)
                   = QueryByIDPreCheckOnly(users, claims, userID, ok)

\* a user who is not an admin fetched their own stored row: both checks ran
\* and the row came back with the requested ID
C12_Witness ==
    /\ last.op = "QueryByID"
    /\ ~Authorized(last.claims, RoleAdmin)
    /\ last.claims.Subject = last.userID
    /\ last.userID \in DOMAIN users
    /\ users[last.userID].ID = last.userID
    /\ last.dberr = NilErr
    /\ last.err = NilErr

----------------------------------------------------------------------------
(* Properties of startup and shutdown *)

\* C4 as stated: when run was stopped by a termination signal, every request
\* that was being served got its whole response before the process exited.
C4_InFlightComplete ==
    (pc = "exited" /\ notified /\ exit = 0) =>
        (atSignal \subseteq served /\ atSignal \cap truncated = {})

Forward ==
    {<<"Starting", "Serving">>, <<"Serving", "Draining">>,
     <<"Draining", "Stopped">>}

\* C5 as stated: the lifecycle only moves from a state to the next one of
\* Starting, Serving, Draining, Stopped, skipping none.
C5_NoStateSkipped ==
    [][AppState' # AppState => <<AppState, AppState'>> \in Forward]_vars

\* C5: the lifecycle only moves forward through Starting, Serving, Draining,
\* Stopped: no state is re-entered, Stopped is terminal, and once Serving no
\* state is skipped; Starting may go straight to Stopped, and does so only
\* when startup fails or prints the help (initLogger, maxprocs, conf.Parse,
\* conf.String) or a signal arrives before signal.Notify.
C5_ForwardOnly ==
    [][/\ AppState' # AppState =>
              \/ <<AppState, AppState'>> \in Forward
              \/ /\ <<AppState, AppState'>> = <<"Starting", "Stopped">>
                 /\ \/ pc \in {"initLogger", "retErr", "retHelp"}
                    \/ ~notified /\ exit' = 2
       /\ AppState = "Stopped" => UNCHANGED appVars]_vars

\* run went through Serving and Draining and the process exited cleanly
C5_Witness ==
    /\ AppState = "Stopped" /\ exit = 0 /\ notified
    /\ log = <<"startup GOMAXPROCS", "starting service", "startup config",
               "debug v1 router started", "shutdown complete">>

\* C6: under fair scheduling of the main goroutine, once a signal sits in
\* `shutdown` while run waits, run leaves the wait and the process exits,
\* whatever the debug goroutine and the requests in flight do; and run leaves
\* the wait only by receiving a signal, to return.
C6_ShutdownLive ==
    /\ (pc = "wait" /\ shutdown # <<>>) ~> (pc = "returning")
    /\ (pc = "returning") ~> (AppState = "Stopped")
    /\ [][(pc = "wait" /\ pc' # "wait") =>
              (shutdown # <<>> /\ pc' = "returning")]_vars

\* the process exited after a signal while the debug listener was still up
\* and a request was being served
C6_Witness ==
    /\ pc = "exited" /\ exit = 0 /\ notified
    /\ debug = "listening"
    /\ atSignal # {}

\* C7: when the debug listener fails, at bind or later, the error is logged
\* and nothing else happens: run stays where it is, no signal is put in
\* `shutdown`, the process keeps running; and run can always take a waiting
\* signal whatever state the debug goroutine is in.
C7_DebugIsolated ==
    /\ [][(debug # "closed" /\ debug' = "closed") =>
              /\ log' = Append(log, "shutdown debug router closed")
              /\ UNCHANGED <<pc, notified, shutdown, inflight, served,
                             truncated, atSignal, exit>>]_vars
    /\ []((Running /\ pc = "wait" /\ shutdown # <<>>) => ENABLED WaitShutdown)

\* the debug listener failed while run was waiting, and run still waits
C7_Witness ==
    /\ debug = "closed" /\ pc = "wait" /\ Running
    /\ log[Len(log)] = "shutdown debug router closed"

----------------------------------------------------------------------------
(* Properties of FieldErrors *)

\* sub occurs in seq as a run of consecutive characters
Occurs(sub, seq) ==
    \E i \in 0..(Len(seq) - Len(sub)) : SubSeq(seq, i + 1, i + Len(sub)) = sub

\* the last entry of list that names field
LastFor(list, field) ==
    list[CHOOSE i \in 1..Len(list) :
            /\ list[i].Field = field
            /\ \A j \in (i + 1)..Len(list) : list[j].Field # field]

BothCalled == feOut.calls = {"Error", "Fields"}

\* C8 as stated: every {field, message} pair of a non-empty FieldErrors is in
\* what Fields() returns and in what Error() returns.
C8_EveryPairReported ==
    (BothCalled /\ fe # <<>>) =>
        \A i \in 1..Len(fe) :
            /\ fe[i].Field \in DOMAIN feOut.fields
            /\ feOut.fields[fe[i].Field] = fe[i].Error
            /\ Occurs(EncodeFieldError(fe[i]), feOut.error)

\* C8: Error() holds the JSON object of every entry; Fields() has a key for
\* every field named, mapped to the message of the last entry that names it,
\* so it holds every pair when no field is named twice.
C8_Enumerates ==
    (BothCalled /\ fe # <<>>) =>
        /\ \A i \in 1..Len(fe) :
               /\ Occurs(EncodeFieldError(fe[i]), feOut.error)
               /\ fe[i].Field \in DOMAIN feOut.fields
               /\ feOut.fields[fe[i].Field] = LastFor(fe, fe[i].Field).Error
        /\ DOMAIN feOut.fields = {fe[i].Field : i \in 1..Len(fe)}
        /\ (\A i, j \in 1..Len(fe) : i # j => fe[i].Field # fe[j].Field) =>
               \A i \in 1..Len(fe) : feOut.fields[fe[i].Field] = fe[i].Error

\* two failing fields, both reported by Error() and by Fields()
C8_Witness ==
    /\ BothCalled /\ Len(fe) = 2
    /\ fe[1].Field # fe[2].Field
    /\ Cardinality(DOMAIN feOut.fields) = 2

----------------------------------------------------------------------------
(* Properties of the Test handler *)

\* C9: Test calls web.Respond at most once: exactly once, with status 200,
\* when the draw is odd; on an even draw it writes nothing and returns a
\* RequestError carrying status 400 and the message "trusted error".
C9_RespondOnce ==
    treq.state = "handled" =>
        /\ treq.w.responds <= 1
        /\ treq.n % 2 = 1 =>
               /\ treq.w.responds = 1
               /\ treq.w.writes = <<[status |-> StatusOK, body |-> "OK"]>>
               /\ treq.re = NoRequestError
        /\ treq.n % 2 = 0 =>
               /\ treq.w.responds = 0
               /\ treq.w.writes = <<>>
               /\ treq.ret = "RequestError"
               /\ treq.re = [Err |-> "trusted error",
                             Status |-> StatusBadRequest, Fields |-> <<>>]

\* a request that Test turned down with its trusted error
C9_Witness ==
    /\ treq.state = "handled" /\ treq.ret = "RequestError"
    /\ treq.re.Status = StatusBadRequest
    /\ treq.w.writes = <<>>

====
